---- MODULE Spec2Model ----
(***************************************************************************)
(* The LLH scan driver of pisa/analysis/llr/RunLLHScan.py as a state       *)
(* machine: the script's top-level statements are the steps, its           *)
(* module-level names are the variables.                                   *)
(*                                                                         *)
(* Numbers are scaled to integers; a non-finite float is the value NaN.    *)
(* The gpu_id option and the scipy-version workaround only edit settings   *)
(* entries that no later statement of the script reads and are left out.   *)
(***************************************************************************)
EXTENDS Integers, Sequences, FiniteSets, TLC

\* Largest step count a grid settings file asks for, per parameter.
MaxSteps == 3
\* Largest number of non-finite optimizer results in one run.
MaxFailures == 1

VARIABLES
    pc,                 \* position of the script
    args,               \* parsed command line (line 96)
    env,                \* what lies outside the script: the settings files
                        \* on disk and how find_opt_scipy treats its params
    template_settings,  \* line 101
    minimizer_settings, \* line 102
    grid_settings,      \* line 103
    params,             \* line 124
    results,            \* line 131
    hypo_params,        \* line 159 (atm entries carry 'steps' after line 165)
    steplist,           \* line 168
    points,             \* the sequence product(*steplist) iterates (line 179)
    pos,                \* index into points of the next tuple to take
    steps,              \* line 175
    llh_data,           \* line 187
    evalLog,            \* history: one entry per find_opt_scipy call
    outfile,            \* content of args.outfile on disk
    writes,             \* number of fileio.to_file calls made
    failures,           \* number of non-finite results so far
    exit_cause          \* why the script ended

vars == <<pc, args, env, template_settings, minimizer_settings, grid_settings,
          params, results, hypo_params, steplist, points, pos, steps,
          llh_data, evalLog, outfile, writes, failures, exit_cause>>

--------------------------------------------------------------------------
(* Values *)

\* The model's encoding of a non-finite float.
NaN == -1

None == [none |-> TRUE]
NoFile == [nofile |-> TRUE]
\* results[data_tag][hypo_tag] holds a reference to the one steps dict.
StepsRef == [ref |-> "steps"]

AtmNames == {"deltam31", "theta23"}
NuisanceName == "energy_scale"

\* Python's order on the parameter names (str comparison).
NameRank(name) ==
    CASE name = "deltam31" -> 1
      [] name = "energy_scale" -> 2
      [] name = "theta23" -> 3

Last(s) == s[Len(s)]

RECURSIVE SumValues(_, _)
SumValues(p, names) ==
    IF names = {} THEN 0
    ELSE LET k == CHOOSE n \in names : TRUE
         IN  p[k].value + SumValues(p, names \ {k})

--------------------------------------------------------------------------
(* The settings files *)

\* A template settings file whose params hold the atmospheric parameters
\* `present` and one nuisance parameter.
TemplateFile(present) ==
    [params |->
        [k \in present \cup {NuisanceName} |->
            CASE k = "deltam31" ->
                    [value |-> 106, fixed |-> FALSE, range |-> <<100, 112>>]
              [] k = "theta23" ->
                    [value |-> 206, fixed |-> FALSE, range |-> <<200, 212>>]
              [] OTHER ->
                    [value |-> 1, fixed |-> FALSE, range |-> <<0, 4>>]],
     binning |-> "binning"]

MinimizerFile == [factr |-> "factr"]

GridFile(counts) == [steps |-> counts]

--------------------------------------------------------------------------
(* pisa.utils.params, pisa.analysis.scan.Scan, pisa.analysis.stats.Maps *)

get_atm_params(p) == [k \in DOMAIN p \cap AtmNames |-> p[k]]

fix_atm_params(p) ==
    [k \in DOMAIN p |->
        IF k \in AtmNames THEN [p[k] EXCEPT !.fixed = TRUE] ELSE p[k]]

\* A copy of the parameters for one hierarchy.
select_hierarchy(p, normal_hierarchy) == p

get_asimov_fmap(p, normal_hierarchy) ==
    [asimov |-> [k \in DOMAIN p |-> p[k].value], normal |-> normal_hierarchy]

\* The Step Expander: n values from lower to upper.
expand(range, n) ==
    IF n = 1 THEN <<range[1]>>
    ELSE [i \in 1..n |-> range[1] + ((i - 1) * (range[2] - range[1])) \div (n - 1)]

StepCountsValid(p, settings) == \A k \in DOMAIN p : settings[k] >= 1

\* calc_steps writes 'steps' into every parameter it is given.
calc_steps(p, settings) ==
    [k \in DOMAIN p |->
        [value |-> p[k].value, fixed |-> p[k].fixed, range |-> p[k].range,
         steps |-> expand(p[k].range, settings[k])]]

--------------------------------------------------------------------------
(* The script *)

data_tag == IF args.data_nh THEN "data_NH" ELSE "data_IH"
hypo_tag == IF args.hypo_nh THEN "hypo_NH" ELSE "hypo_IH"

RECURSIVE sorted_reverse(_)
\* sorted(..., reverse=True)
sorted_reverse(names) ==
    IF names = {} THEN <<>>
    ELSE LET greatest == CHOOSE n \in names :
                            \A m \in names : NameRank(m) <= NameRank(n)
         IN  <<greatest>> \o sorted_reverse(names \ {greatest})

RECURSIVE sorted(_)
sorted(names) ==
    IF names = {} THEN <<>>
    ELSE LET least == CHOOSE n \in names :
                         \A m \in names : NameRank(n) <= NameRank(m)
         IN  <<least>> \o sorted(names \ {least})

\* [[(name, step) for step in param['steps']]
\*    for name, param in sorted(atm_params.items())]
MakeSteplist(atm_params) ==
    LET order == sorted(DOMAIN atm_params)
    IN  [i \in 1..Len(order) |->
            [j \in 1..Len(atm_params[order[i]].steps) |->
                <<order[i], atm_params[order[i]].steps[j]>>]]

\* [x + [y] for y in pool], for one x
RowFor(x, pool) == [j \in 1..Len(pool) |-> Append(x, pool[j])]

RECURSIVE Extend(_, _)
\* [x + [y] for x in result for y in pool]
Extend(result, pool) ==
    IF result = <<>> THEN <<>>
    ELSE RowFor(Head(result), pool) \o Extend(Tail(result), pool)

RECURSIVE ProductFrom(_, _)
ProductFrom(result, pools) ==
    IF pools = <<>> THEN result
    ELSE ProductFrom(Extend(result, Head(pools)), Tail(pools))

RECURSIVE MinLen(_)
MinLen(pools) ==
    IF Len(pools) = 1 THEN Len(pools[1])
    ELSE LET rest == MinLen(Tail(pools))
         IN  IF Len(pools[1]) < rest THEN Len(pools[1]) ELSE rest

\* zip(*pools) where product(*pools) is meant
product_zip(pools) ==
    IF pools = <<>> THEN <<>>
    ELSE [i \in 1..MinLen(pools) |-> [j \in 1..Len(pools) |-> pools[j][i]]]

\* itertools.product(*pools)
product(pools) == ProductFrom(<< <<>> >>, pools)

\* dict(list(pos))
PosDict(tuple) ==
    [k \in {tuple[i][1] : i \in 1..Len(tuple)} |->
        LET i == CHOOSE j \in 1..Len(tuple) : tuple[j][1] = k
        IN  tuple[i][2]]

\* the assignment made for the first item of pos_dict only
FixValues_first(hp, pos_dict) ==
    [k \in DOMAIN hp |->
        IF /\ k \in DOMAIN pos_dict
           /\ \A m \in DOMAIN pos_dict : NameRank(k) <= NameRank(m)
        THEN [hp[k] EXCEPT !.value = pos_dict[k]]
        ELSE hp[k]]

\* for k,v in pos_dict.items(): hypo_params[k]['value'] = v
FixValues(hp, pos_dict) ==
    [k \in DOMAIN hp |->
        IF k \in DOMAIN pos_dict THEN [hp[k] EXCEPT !.value = pos_dict[k]]
        ELSE hp[k]]

\* for k,v in pos_dict.items(): steps[k].append(v)
AppendSteps(st, pos_dict) ==
    [k \in DOMAIN st |->
        IF k \in DOMAIN pos_dict THEN Append(st[k], pos_dict[k]) ELSE st[k]]

\* llh_data['llh'][0]
FinalLLH_first(data) == data.llh[1]

\* llh_data['llh'][-1]
FinalLLH(data) == data.llh[Len(data.llh)]

\* steps['llh'].append(...)
AppendLLH(st, value) == [st EXCEPT !["llh"] = Append(@, value)]

\* results[data_tag][hypo_tag] = {k: [v[-1]] for k, v in steps.items()}
StoreLLHData_row(res, dtag, htag, st) ==
    [res EXCEPT ![dtag] =
        (htag :> [k \in DOMAIN st |-> <<st[k][Len(st[k])]>>]) @@ @]

\* results[data_tag][hypo_tag] = steps
StoreLLHData(res, dtag, htag, st) ==
    [res EXCEPT ![dtag] = (htag :> StepsRef) @@ @]

\* the loop left after its first pass
LoopFinished_early(i, pts) == i > 1

\* product(*steplist) is exhausted
LoopFinished(i, pts) == i > Len(pts)

\* What the serializer writes for an entry of results[data_tag].
Deref(x, st) == IF "ref" \in DOMAIN x THEN st ELSE x

\* fileio.to_file(results, args.outfile): the JSON text of results.
to_file(res, dtag, st) ==
    [res EXCEPT ![dtag] = [k \in DOMAIN res[dtag] |-> Deref(res[dtag][k], st)]]

--------------------------------------------------------------------------
(* find_opt_scipy *)

\* The value the minimizer settles a free parameter at.
Fit(p) == 2 + (SumValues(p, DOMAIN p \cap AtmNames) % 3)

Optimized(p) ==
    [k \in DOMAIN p |->
        IF p[k].fixed THEN p[k] ELSE [p[k] EXCEPT !.value = Fit(p)]]

Likelihood(p, normal_hierarchy) ==
    SumValues(p, DOMAIN p) + (IF normal_hierarchy THEN 1 ELSE 2)

\* The likelihood trajectory of one minimization.
Trajectory(p, save_steps, normal_hierarchy, final) ==
    IF save_steps
    THEN <<Likelihood(p, normal_hierarchy) + 5, final>>
    ELSE <<final>>

--------------------------------------------------------------------------
Init ==
    /\ pc = "start"
    /\ args \in [data_nh : BOOLEAN, hypo_nh : BOOLEAN, save_steps : BOOLEAN]
    /\ \E present \in SUBSET AtmNames :
       \E counts \in [present -> 0..MaxSteps] :
       \E writes_back \in BOOLEAN :
          env = [template |-> TemplateFile(present),
                 minimizer |-> MinimizerFile,
                 grid |-> GridFile(counts),
                 writes_back |-> writes_back]
    /\ template_settings = None
    /\ minimizer_settings = None
    /\ grid_settings = None
    /\ params = None
    /\ results = None
    /\ hypo_params = None
    /\ steplist = <<>>
    /\ points = <<>>
    /\ pos = 1
    /\ steps = None
    /\ llh_data = None
    /\ evalLog = <<>>
    /\ outfile = NoFile
    /\ writes = 0
    /\ failures = 0
    /\ exit_cause = "running"

\* lines 101-103: fileio.from_file reads the three settings files
LoadSettings ==
    /\ pc = "start"
    /\ template_settings' = env.template
    /\ minimizer_settings' = env.minimizer
    /\ grid_settings' = env.grid
    /\ pc' = "setup"
    /\ UNCHANGED <<args, env, params, results, hypo_params, steplist, points,
                   pos, steps, llh_data, evalLog, outfile, writes, failures,
                   exit_cause>>

\* lines 101-103: fileio.from_file raises
LoadSettingsFails ==
    /\ pc = "start"
    /\ pc' = "aborted"
    /\ exit_cause' = "settings"
    /\ UNCHANGED <<args, env, template_settings, minimizer_settings,
                   grid_settings, params, results, hypo_params, steplist,
                   points, pos, steps, llh_data, evalLog, outfile, writes,
                   failures>>

SetupParams == fix_atm_params(template_settings.params)

SetupResults ==
    LET data_params == select_hierarchy(SetupParams, args.data_nh)
    IN  ("template_settings" :> template_settings)
        @@ ("minimizer_settings" :> minimizer_settings)
        @@ ("grid_settings" :> grid_settings)
        @@ (data_tag :>
               ("asimov_data" :> get_asimov_fmap(data_params, args.data_nh)))

\* lines 105-176: everything up to the scan loop
Setup ==
    /\ pc = "setup"
    /\ LET hp == select_hierarchy(SetupParams, args.hypo_nh)
           atm == get_atm_params(hp)
       IN  /\ StepCountsValid(atm, grid_settings.steps)
           /\ LET atm_params == calc_steps(atm, grid_settings.steps)
              IN  /\ hypo_params' = atm_params @@ hp
                  /\ steplist' = MakeSteplist(atm_params)
                  /\ points' = product(MakeSteplist(atm_params))
                  /\ steps' = [k \in DOMAIN atm_params \cup {"llh"} |-> <<>>]
    /\ params' = SetupParams
    /\ results' = SetupResults
    /\ pos' = 1
    /\ pc' = "loop"
    /\ UNCHANGED <<args, env, template_settings, minimizer_settings,
                   grid_settings, llh_data, evalLog, outfile, writes,
                   failures, exit_cause>>

\* line 165: calc_steps raises on a step count below 1
SetupFails ==
    /\ pc = "setup"
    /\ LET hp == select_hierarchy(SetupParams, args.hypo_nh)
       IN  ~StepCountsValid(get_atm_params(hp), grid_settings.steps)
    /\ params' = SetupParams
    /\ results' = SetupResults
    /\ pc' = "aborted"
    /\ exit_cause' = "config"
    /\ UNCHANGED <<args, env, template_settings, minimizer_settings,
                   grid_settings, hypo_params, steplist, points, pos, steps,
                   llh_data, evalLog, outfile, writes, failures>>

\* lines 179-184: take the next tuple of the product and fix the parameters
FixPoint ==
    /\ pc = "loop"
    /\ ~LoopFinished(pos, points)
    /\ LET pos_dict == PosDict(points[pos])
       IN  /\ hypo_params' = FixValues(hypo_params, pos_dict)
           /\ steps' = AppendSteps(steps, pos_dict)
    /\ pc' = "eval"
    /\ UNCHANGED <<args, env, template_settings, minimizer_settings,
                   grid_settings, params, results, steplist, points, pos,
                   llh_data, evalLog, outfile, writes, failures, exit_cause>>

\* What find_opt_scipy leaves in the dict it was handed.
ParamsAfterCall ==
    IF env.writes_back
    THEN [k \in DOMAIN hypo_params |->
            [hypo_params[k] EXCEPT !.value = Optimized(hypo_params)[k].value]]
    ELSE hypo_params

Returned(final) ==
    [llh |-> Trajectory(hypo_params, args.save_steps, args.hypo_nh, final)]

Logged(data) == [params |-> hypo_params, llh_data |-> data]

\* lines 186-189: find_opt_scipy returns a finite likelihood
Evaluate ==
    /\ pc = "eval"
    /\ LET data == Returned(Likelihood(Optimized(hypo_params), args.hypo_nh))
       IN  /\ llh_data' = data
           /\ evalLog' = Append(evalLog, Logged(data))
    /\ hypo_params' = ParamsAfterCall
    /\ pc' = "record"
    /\ UNCHANGED <<args, env, template_settings, minimizer_settings,
                   grid_settings, params, results, steplist, points, pos,
                   steps, outfile, writes, failures, exit_cause>>

\* lines 186-189: find_opt_scipy returns a non-finite likelihood
EvaluateNaN ==
    /\ pc = "eval"
    /\ failures < MaxFailures
    /\ failures' = failures + 1
    /\ llh_data' = Returned(NaN)
    /\ evalLog' = Append(evalLog, Logged(Returned(NaN)))
    /\ hypo_params' = ParamsAfterCall
    /\ pc' = "record"
    /\ UNCHANGED <<args, env, template_settings, minimizer_settings,
                   grid_settings, params, results, steplist, points, pos,
                   steps, outfile, writes, exit_cause>>

\* lines 186-189: find_opt_scipy raises; nothing catches it
EvaluateRaises ==
    /\ pc = "eval"
    /\ evalLog' = Append(evalLog, Logged(None))
    /\ pc' = "aborted"
    /\ exit_cause' = "evaluator"
    /\ UNCHANGED <<args, env, template_settings, minimizer_settings,
                   grid_settings, params, results, hypo_params, steplist,
                   points, pos, steps, llh_data, outfile, writes, failures>>

\* lines 192-195: record the likelihood and go to the next tuple
Record ==
    /\ pc = "record"
    /\ steps' = AppendLLH(steps, FinalLLH(llh_data))
    /\ results' = StoreLLHData(results, data_tag, hypo_tag, steps')
    /\ pos' = pos + 1
    /\ pc' = "loop"
    /\ UNCHANGED <<args, env, template_settings, minimizer_settings,
                   grid_settings, params, hypo_params, steplist, points,
                   llh_data, evalLog, outfile, writes, failures, exit_cause>>

\* lines 197-198: the product is exhausted; write the results
SaveFile ==
    /\ pc = "loop"
    /\ LoopFinished(pos, points)
    /\ outfile' = to_file(results, data_tag, steps)
    /\ writes' = writes + 1
    /\ pc' = "done"
    /\ exit_cause' = "finished"
    /\ UNCHANGED <<args, env, template_settings, minimizer_settings,
                   grid_settings, params, results, hypo_params, steplist,
                   points, pos, steps, llh_data, evalLog, failures>>

Next ==
    \/ LoadSettings
    \/ LoadSettingsFails
    \/ Setup
    \/ SetupFails
    \/ FixPoint
    \/ Evaluate
    \/ EvaluateNaN
    \/ EvaluateRaises
    \/ Record
    \/ SaveFile

Spec == Init /\ [][Next]_vars

--------------------------------------------------------------------------
(* Properties *)

\* The scan loop has been set up.
Started == "llh" \in DOMAIN steps

\* The names of the scanned parameters.
Scanned == DOMAIN steps \ {"llh"}

StepsOf(k) == hypo_params[k].steps

RECURSIVE LenProduct(_)
LenProduct(names) ==
    IF names = {} THEN 1
    ELSE LET k == CHOOSE n \in names : TRUE
         IN  Len(StepsOf(k)) * LenProduct(names \ {k})

\* N: the product of the lengths of the scanned parameters' step sequences.
NumPoints == LenProduct(Scanned)

\* How many tuples pass while parameter k keeps one value: the product of
\* the lengths of the sequences of the names that sort after k.
Stride(k) == LenProduct({m \in Scanned : NameRank(m) > NameRank(k)})

\* The call number i ended in a failure of the evaluator.
FailedCall(i) ==
    \/ "none" \in DOMAIN evalLog[i].llh_data
    \/ Last(evalLog[i].llh_data.llh) = NaN

\* C1: after a scan that ran to completion every key of steps holds exactly
\* N values, N the product of the step sequences' lengths, and
\* find_opt_scipy was called exactly N times.
C1_FullScanLengths ==
    pc = "done" =>
        /\ \A k \in DOMAIN steps : Len(steps[k]) = NumPoints
        /\ Len(evalLog) = NumPoints

C1_Witness ==
    /\ pc = "done"
    /\ Cardinality(Scanned) = 2
    /\ NumPoints = 6
    /\ Len(steps["llh"]) = 6

\* C2: between iterations and when the script has ended, an evaluator
\* failure included, all sequences of steps have the same length, the
\* number of scan points processed so far.
C2_EqualLengths ==
    (Started /\ pc \in {"loop", "done", "aborted"}) =>
        \A k \in DOMAIN steps : Len(steps[k]) = pos - 1

\* C3: the points are visited in lexicographic order over the sorted
\* parameter names, the last name varying fastest and each parameter's
\* values taken in the order of its step sequence: the i-th value recorded
\* for k is the step at digit ((i-1) div Stride(k)) mod len(k); a completed
\* scan has visited all N points.
C3_VisitOrder ==
    Started =>
        /\ \A k \in Scanned : \A i \in 1..Len(steps[k]) :
              steps[k][i] =
                 StepsOf(k)[(((i - 1) \div Stride(k)) % Len(StepsOf(k))) + 1]
        /\ pc = "done" => \A k \in Scanned : Len(steps[k]) = NumPoints

C3_Witness ==
    /\ pc = "done"
    /\ Scanned = AtmNames
    /\ Len(StepsOf("deltam31")) = 3
    /\ Len(StepsOf("theta23")) = 2
    /\ steps["deltam31"] = <<100, 100, 106, 106, 112, 112>>
    /\ steps["theta23"] = <<200, 212, 200, 212, 200, 212>>

\* C4: once the evaluator has failed for a point of a scan over at least
\* one parameter (a non-finite likelihood or an exception) the script still
\* ends normally with all N points recorded.
C4_FailureDoesNotAbort ==
    (/\ pc \in {"done", "aborted"}
     /\ Started
     /\ Scanned # {}
     /\ \E i \in 1..Len(evalLog) : FailedCall(i)) =>
        /\ pc = "done"
        /\ Len(steps["llh"]) = NumPoints

\* C5: the output file is written at most once and only when every scan
\* point has been processed; a run that ended by a failure of the settings
\* load or of an evaluator call has written no file.
C5_WriteOnceAtEnd ==
    /\ writes <= 1
    /\ writes = 1 =>
          /\ pc = "done"
          /\ Len(steps["llh"]) = NumPoints
          /\ Len(evalLog) = NumPoints
    /\ pc = "aborted" => (writes = 0 /\ outfile = NoFile)
    /\ writes = 0 => outfile = NoFile

C5_Witness ==
    /\ pc = "aborted"
    /\ exit_cause = "evaluator"
    /\ Len(evalLog) = 3
    /\ writes = 0

\* C6: at every find_opt_scipy call each scanned parameter of the dict
\* passed has the value of the current scan point and fixed = True.
C6_FixedAtInvocation ==
    \A i \in 1..Len(evalLog) : \A k \in Scanned :
        /\ evalLog[i].params[k].value = PosDict(points[i])[k]
        /\ evalLog[i].params[k].fixed

C6_Witness ==
    /\ Len(evalLog) >= 2
    /\ Scanned = AtmNames
    /\ evalLog[2].params["theta23"].value # evalLog[1].params["theta23"].value

\* C7: with no parameter to scan, or an empty step sequence, the evaluator
\* is never called and no file is written.
C7_EmptyScanFailsFast ==
    LET atm == DOMAIN env.template.params \cap AtmNames
    IN  (atm = {} \/ \E k \in atm : env.grid.steps[k] = 0) =>
            (Len(evalLog) = 0 /\ writes = 0)

\* C8: in a completed scan, row i of steps holds the parameter values the
\* i-th find_opt_scipy call ran at and the last element of the likelihood
\* trajectory that call returned.
C8_IndexAligned ==
    pc = "done" =>
        /\ Len(steps["llh"]) = Len(evalLog)
        /\ \A i \in 1..Len(evalLog) :
              /\ steps["llh"][i] = Last(evalLog[i].llh_data.llh)
              /\ \A k \in Scanned :
                    /\ i <= Len(steps[k])
                    /\ steps[k][i] = evalLog[i].params[k].value

C8_Witness ==
    /\ pc = "done"
    /\ args.save_steps
    /\ Scanned = AtmNames
    /\ Len(evalLog) >= 4
    /\ Len(evalLog[2].llh_data.llh) = 2
    /\ steps["llh"][2] # evalLog[2].llh_data.llh[1]

\* C9: what the evaluator changed in the dict it received for one scan
\* point is not in the dict passed for the next: every call sees the
\* unscanned parameters as the first call saw them.
C9_PerIterationSnapshot ==
    \A i \in 2..Len(evalLog) :
        \A k \in DOMAIN evalLog[i].params \ Scanned :
            evalLog[i].params[k] = evalLog[1].params[k]

====
